---- MODULE Spec2Model ----
(***************************************************************************)
(* cf2zarr: one run of the append pipeline of src/src/cf2zarr.py.          *)
(*                                                                         *)
(* A dataset is a record                                                   *)
(*   some   : FALSE for Python's None                                      *)
(*   vars   : the data variables, in declaration order                     *)
(*   coords : the coordinates, in the order ds.coords iterates them, each  *)
(*            [name, dims]                                                 *)
(*   rows   : the samples along the ordering dimension, in position order, *)
(*            each [t, o, p]: t is the value of the dimension's index      *)
(*            coordinate (the coordinate named like the dimension), o the  *)
(*            value of the 1-D coordinate "obs" along the dimension, each  *)
(*            0 when the dataset has no such coordinate, and p the payload *)
(*            (the identity of the sample: its position in "existing       *)
(*            followed by incoming")                                       *)
(*   chunks : the chunk shape bound to the data variables (<<>>: none yet) *)
(*   codec  : the compressor named in the encoding ("none": none yet)      *)
(***************************************************************************)
EXTENDS Integers, Sequences, FiniteSets

\* Longest existing dataset and longest incoming dataset, in samples.
MaxLen == 2
\* Index coordinate values are drawn from 1 .. MaxT.
MaxT == 2

VARIABLES
    pc,            \* the statement main is about to execute
    dim,           \* args.time_dim
    duration,      \* args.duration, drawn when main reads it (line 138)
    requested,     \* args.variables, drawn when main reads it (line 67)
    variables,     \* main's local `variables`
    ds,            \* main's local `ds`
    new_ds,        \* main's local `new_ds`
    new_vars,      \* new_ds.data_vars as opened, before line 98 rebinds new_ds
    old_rows,      \* observed: rows of the existing dataset as opened
    raw_rows,      \* observed: rows of the incoming files as read, unsorted
    prev,          \* observed: rows of ds before the latest dedup / trim
    time_coord,    \* main's local `time_coord`
    report,        \* what the dedup step printed: [warned, drop]
    staging_dirs,  \* the module-level list
    created,       \* directories mkdtemp has created
    fs,            \* staging directories present on disk
    attempted,     \* directories rmtree was called on, in order
    completed,     \* pipeline steps that returned without raising, in order
    dest,          \* what the run has done to the destination: "untouched",
                   \* "partial" (a store begun and not finished) or "written"
    writes,        \* the to_zarr calls made: [mode, existed, chunks, codec];
                   \* existed: the destination held a store when called
    result         \* "running", "ok" or the error main raised

vars == <<pc, dim, duration, requested, variables, ds, new_ds, new_vars,
          old_rows, raw_rows, prev, time_coord, report, staging_dirs, created, fs,
          attempted, completed, dest, writes, result>>

----------------------------------------------------------------------------
(* Values *)

NoneDs == [some |-> FALSE, vars |-> <<>>, coords |-> <<>>, rows |-> <<>>,
           chunks |-> <<>>, codec |-> "none"]

\* A dataset as a reader returns it.
Opened(v, c, r) == [some |-> TRUE, vars |-> v, coords |-> c, rows |-> r,
                    chunks |-> <<>>, codec |-> "none"]

Range(s) == {s[i] : i \in 1 .. Len(s)}

\* All sequences over S of length lo .. hi.
SeqsOf(S, lo, hi) == UNION {[1 .. n -> S] : n \in lo .. hi}

Dims == {"time", "t"}

\* Coordinate layouts of a dataset whose ordering dimension is d: the index
\* coordinate alone, "obs" before and after the index coordinate, "obs" alone
\* (the dimension has no index coordinate), and no 1-D coordinate at all.
CoordLayouts(d) ==
    { <<[name |-> "lat", dims |-> <<"lat">>], [name |-> d, dims |-> <<d>>]>>,
      <<[name |-> "obs", dims |-> <<d>>], [name |-> d, dims |-> <<d>>]>>,
      <<[name |-> d, dims |-> <<d>>], [name |-> "obs", dims |-> <<d>>]>>,
      <<[name |-> "lat", dims |-> <<"lat">>], [name |-> "obs", dims |-> <<d>>]>>,
      <<[name |-> "lat", dims |-> <<"lat">>],
        [name |-> "t2d", dims |-> <<d, "lat">>]>> }

HasIndex(coords, d) == \E i \in 1 .. Len(coords) : coords[i].name = d
HasObs(coords) == \E i \in 1 .. Len(coords) : coords[i].name = "obs"

\* Values the coordinate "obs" takes: two, so that it can tie and differ.
ObsValues == {7, 9}

\* The coordinate values [t, o] one sample can have under a layout.
SampleValues(coords, d) ==
    {[t |-> t, o |-> o] :
        t \in (IF HasIndex(coords, d) THEN 1 .. MaxT ELSE {0}),
        o \in (IF HasObs(coords) THEN ObsValues ELSE {0})}

ExistingVars == {<<"temp", "sal">>, <<"sal">>}
IncomingVars == {<<"temp", "sal">>, <<"sal", "temp">>, <<"temp">>, <<>>}
Requests == {<<>>, <<"sal">>, <<"wind">>}

\* Rows of the existing dataset: any order, any duplicates; payload = position.
ExistingRows(coords, d) ==
    {[i \in 1 .. Len(cs) |-> [t |-> cs[i].t, o |-> cs[i].o, p |-> i]] :
        cs \in SeqsOf(SampleValues(coords, d), 1, MaxLen)}

\* Rows of the incoming files as read: payloads continue after the existing ones.
IncomingRows(coords, d) ==
    {[i \in 1 .. Len(cs) |-> [t |-> cs[i].t, o |-> cs[i].o, p |-> MaxLen + i]] :
        cs \in SeqsOf(SampleValues(coords, d), 1, MaxLen)}

\* argparse leaves args.variables None when --variables is not given.
NoRequest == [some |-> FALSE, names |-> <<>>]
RequestValues == {NoRequest} \cup {[some |-> TRUE, names |-> r] : r \in Requests}

\* args.duration: None, or a pandas.Timedelta (negative ones parse too).
NoDuration == [some |-> FALSE, span |-> 0]
DurationValues ==
    {NoDuration} \cup {[some |-> TRUE, span |-> d] : d \in (0 - 1) .. (MaxT - 1)}

NoReport == [warned |-> FALSE, drop |-> <<>>]

----------------------------------------------------------------------------
(* xarray / numpy operations the pipeline calls, as the code uses them *)

\* Insert x after every row whose t is <= x.t (stable).
RECURSIVE InsertSorted(_, _)
InsertSorted(s, x) ==
    IF s = <<>> THEN <<x>>
    ELSE IF s[Len(s)].t <= x.t THEN Append(s, x)
    ELSE Append(InsertSorted(SubSeq(s, 1, Len(s) - 1), x), s[Len(s)])

RECURSIVE StableSort(_)
StableSort(s) ==
    IF s = <<>> THEN <<>>
    ELSE InsertSorted(StableSort(SubSeq(s, 1, Len(s) - 1)), s[Len(s)])

\* Dataset.sortby(dim): a stable sort by the dimension's index coordinate; a
\* dimension without an index coordinate sorts by position, i.e. not at all.
sortby(d, byDim) ==
    IF HasIndex(d.coords, byDim) THEN [d EXCEPT !.rows = StableSort(d.rows)]
    ELSE d

\* xr.concat((a, b), dim): a's rows followed by b's; the variables are a's,
\* then those only b holds.
concat(a, b) ==
    [a EXCEPT !.rows = a.rows \o b.rows,
              !.vars = a.vars \o SelectSeq(b.vars, LAMBDA v : v \notin Range(a.vars))]

\* The rows at the positions in `keep`, in position order.
KeepAt(rows, keep) ==
    LET RECURSIVE F(_)
        F(i) == IF i = 0 THEN <<>>
                ELSE IF i \in keep THEN Append(F(i - 1), rows[i]) ELSE F(i - 1)
    IN F(Len(rows))

\* Positions (1-based) Dataset.drop_duplicates(dim, keep='first') removes: every
\* row whose index value already occurred at an earlier position.
DuplicatedFirst(rows) ==
    {k \in 1 .. Len(rows) : \E j \in 1 .. (k - 1) : rows[j].t = rows[k].t}

\* Dataset.drop_duplicates(dim=byDim, keep='first'): acts on the dimension's
\* index; a dimension without an index coordinate has the positions 0 .. n-1
\* for its index, which hold no duplicate.
drop_duplicates(d, byDim) ==
    IF HasIndex(d.coords, byDim)
    THEN [d EXCEPT !.rows = KeepAt(d.rows, (1 .. Len(d.rows)) \ DuplicatedFirst(d.rows))]
    ELSE d


----------------------------------------------------------------------------
(* Variable selection, lines 86-98 *)

\* Line 89: list(new_ds.data_vars.keys())[0]; IndexError on an empty list.
first_variable_fails(new) == Len(new.vars) = 0

\* The default taken from the incoming dataset even when a store exists.
default_variables_first_only(req, existing, new) ==
    LET given == IF req.some THEN req.names ELSE <<>>
    IN IF Len(given) = 0 THEN <<new.vars[1]>> ELSE given

\* Lines 86-94: the list bound to `variables` before the subselection.
default_variables(req, existing, new) ==
    LET given == IF req.some THEN req.names ELSE <<>>
    IN IF Len(given) = 0
       THEN IF ~existing.some THEN <<new.vars[1]>> ELSE existing.vars
       ELSE given

\* Line 98: new_ds[variables] raises KeyError for a name new_ds does not hold.
subselect_fails(new, names) == \E i \in 1 .. Len(names) : names[i] \notin Range(new.vars)

subselect(new, names) == [new EXCEPT !.vars = names]

----------------------------------------------------------------------------
(* Ordering-coordinate discovery, lines 107-116 *)

\* The loop of lines 109-113: the first coordinate, in ds.coords order, whose
\* dims are exactly (dim,); "None" when the loop ends without a match.
RECURSIVE find_time_coord(_, _, _)
find_time_coord(coords, d, i) ==
    IF i > Len(coords) THEN "None"
    ELSE IF coords[i].dims = <<d>> THEN coords[i].name
    ELSE find_time_coord(coords, d, i + 1)

\* ds[time_coord].to_numpy(): the index coordinate holds t, "obs" holds o.
coord_values(rows, name, d) ==
    [i \in 1 .. Len(rows) |-> IF name = d THEN rows[i].t ELSE rows[i].o]

----------------------------------------------------------------------------
(* Deduplication, lines 118-136 *)

\* Line 122: any(np.diff(times).astype(int) == 0).
any_zero_diff(times) == \E i \in 1 .. (Len(times) - 1) : times[i + 1] - times[i] = 0

\* Lines 125-132: enumerate is 0-based; position k (1-based) is i = k - 1, and
\* the loop appends i - 1 when times[i] equals the value before it.
drop_entry(k) == k - 2

drop_list(times) ==
    LET RECURSIVE F(_)
        F(k) == IF k < 2 THEN <<>>
                ELSE IF times[k] = times[k - 1]
                     THEN Append(F(k - 1), drop_entry(k))
                     ELSE F(k - 1)
    IN F(Len(times))

\* Lines 120-136: the dataset after the dedup step, given the discovered
\* coordinate; drop_duplicates runs only when line 122 saw a zero difference.
dedup_step(data, coord, d) ==
    IF any_zero_diff(coord_values(data.rows, coord, d))
    THEN drop_duplicates(data, d)
    ELSE data

\* Lines 100-105: the working dataset after the merge step; `new` is new_ds,
\* already sorted by line 82.
merge_step(existing, new, d) ==
    IF existing.some THEN sortby(concat(existing, new), d) ELSE new

\* Line 101: the store and the subselected new dataset hold different data
\* variables.  xr.concat then raises ValueError or fills the missing variable,
\* depending on the xarray release installed.
concat_vars_differ(existing, new) ==
    existing.some /\ Range(existing.vars) # Range(new.vars)

----------------------------------------------------------------------------
(* Lines 82-136 as one function *)

Raised(e) == [err |-> e, ds |-> NoneDs]

\* The outcome of lines 82-136 for a request, an existing store (or NoneDs) and
\* the dataset read from the new files: the exception that leaves main, or
\* err = "none" and the working dataset after line 136.  concat_fills says
\* whether the installed xr.concat fills a variable one side lacks.
merge_dedup(req, existing, incoming, concat_fills, d) ==
    LET new == sortby(incoming, d)                                   \* line 82
    IN IF first_variable_fails(new) THEN Raised("IndexError")        \* line 89
       ELSE LET names == default_variables(req, existing, new)       \* 86-94
            IN IF subselect_fails(new, names) THEN Raised("KeyError")    \* line 98
               ELSE LET sel == subselect(new, names)
                    IN IF concat_vars_differ(existing, sel) /\ ~concat_fills
                       THEN Raised("ValueError")                     \* line 101
                       ELSE LET merged == merge_step(existing, sel, d)   \* 100-105
                                found == find_time_coord(merged.coords, d, 1)
                            IN IF found = "None"
                               THEN Raised("ValueError")             \* 115-116
                               ELSE [err |-> "none",
                                     ds |-> dedup_step(merged, found, d)]

----------------------------------------------------------------------------
(* Window trim, lines 138-154 *)

\* The keyword of ds.isel(time=...), line 151.
IselDim == "time"

\* Lines 146-149: idx counts up from 0 while coord[-1] - coord[idx] exceeds the
\* duration; indexing position idx = len raises IndexError (returned as -1).
RECURSIVE trim_scan(_, _, _)
trim_scan(times, span, idx) ==
    IF idx >= Len(times) THEN 0 - 1
    ELSE IF times[Len(times)] - times[idx + 1] > span
         THEN trim_scan(times, span, idx + 1)
         ELSE idx

\* Line 143: ds_duration > args.duration.
exceeds(times, span) == times[Len(times)] - times[1] > span

\* Line 151: ds.isel(time=slice(idx, None)).
isel_from(rows, idx) == SubSeq(rows, idx + 1, Len(rows))

----------------------------------------------------------------------------
(* Chunking, encoding and the write, lines 156-176 *)

chunk_config == <<5, 50, 50>>

\* Line 165: zarr.Blosc(cname="blosclz", clevel=9).
compressor == "blosclz-9"

\* The mode main passes to Dataset.to_zarr: "w-" creates, and fails if the
\* store exists.
to_zarr_mode == "w-"

\* Dataset.to_zarr on a destination that holds a store or not: the ways the
\* call can end, each [result, dest].  With mode 'w-' an existing store is
\* refused before anything is written.  Otherwise the writer creates the group
\* and its metadata and then computes and stores the lazily read data chunk by
\* chunk: it returns, or raises before it wrote anything, or raises after it
\* began writing and leaves what it wrote.
to_zarr_outcome(mode, existed) ==
    IF mode = "w-" /\ existed
    THEN {[result |-> "ContainsGroupError", dest |-> "untouched"]}
    ELSE {[result |-> "ok", dest |-> "written"],
          [result |-> "WriteError", dest |-> "untouched"],
          [result |-> "WriteError", dest |-> "partial"]}


----------------------------------------------------------------------------
(* Staging and cleanup, lines 16-50 and 240-248 *)

\* _stage_s3 after the directory is recorded: the scheme check of line 29, then
\* the listing and downloads of lines 41-48.
stage_s3_outcome(scheme, downloads_ok) ==
    IF scheme # "s3" THEN "ValueError"
    ELSE IF ~downloads_ok THEN "ClientError"
    ELSE "ok"

\* No except clause: the first failing removal ends the loop.
rmtree_calls_until_failure(dirs, failing) ==
    LET RECURSIVE F(_)
        F(i) == IF i > Len(dirs) THEN <<>>
                ELSE IF dirs[i] \in failing THEN <<dirs[i]>>
                ELSE <<dirs[i]>> \o F(i + 1)
    IN F(1)

\* Lines 243-248: the directories shutil.rmtree is called on, given the set of
\* directories whose removal raises; the bare except swallows each failure.
rmtree_calls(dirs, failing) == dirs

\* What the process ends with once the finally block has run: an exception
\* caught inside the loop never replaces main's own outcome.
outcome_after_cleanup(outcome, failing) == outcome

----------------------------------------------------------------------------
(* The run *)

args == <<dim, duration, requested>>
locals == <<variables, ds, new_ds, new_vars, old_rows, raw_rows, prev,
            time_coord, report>>
staging == <<staging_dirs, created, fs>>
store == <<dest, writes>>

Init ==
    /\ pc = "client"
    /\ dim \in Dims
    /\ duration = NoDuration
    /\ requested = NoRequest
    /\ variables = <<>>
    /\ ds = NoneDs
    /\ new_ds = NoneDs
    /\ new_vars = <<>>
    /\ old_rows = <<>>
    /\ raw_rows = <<>>
    /\ prev = <<>>
    /\ time_coord = "None"
    /\ report = NoReport
    /\ staging_dirs = <<>>
    /\ created = {}
    /\ fs = {}
    /\ attempted = <<>>
    /\ completed = <<>>
    /\ dest = "untouched"
    /\ writes = <<>>
    /\ result = "running"

\* main's frame is gone once it returns or raises.
DropLocals ==
    /\ variables' = <<>>
    /\ ds' = NoneDs
    /\ new_ds' = NoneDs
    /\ new_vars' = <<>>
    /\ old_rows' = <<>>
    /\ raw_rows' = <<>>
    /\ prev' = <<>>
    /\ time_coord' = "None"
    /\ report' = NoReport

\* An exception leaves main: control passes to the finally block of line 242.
Raise(err) ==
    /\ pc' = "finally"
    /\ result' = err
    /\ DropLocals

\* Lines 20-23: mkdtemp, then the directory is appended to staging_dirs.
MakeStagingDir ==
    LET d == Len(staging_dirs) + 1
    IN /\ staging_dirs' = Append(staging_dirs, d)
       /\ created' = created \cup {d}
       /\ fs' = fs \cup {d}

\* Line 70: boto3.client('s3') may raise before anything is staged.
Client ==
    /\ pc = "client"
    /\ \/ pc' = "open_zarr" /\ UNCHANGED <<locals, result>>
       \/ Raise("ClientError")
    /\ UNCHANGED <<args, staging, attempted, completed, store>>

\* Lines 72-78, with _open_zarr (53-61) and _stage_s3 (19-50).  xr.open_zarr is
\* lazy: it reads the store's metadata, and the rows are read by Merge.
OpenZarr ==
    /\ pc = "open_zarr"
    /\ \/ /\ pc' = "stage_input"              \* args.zarr in {'', 'none'}
          /\ UNCHANGED <<locals, staging, result>>
       \/ /\ Raise("NotImplementedError")     \* --zarr-access mount
          /\ UNCHANGED staging
       \/ /\ MakeStagingDir                   \* --zarr-access stage
          /\ \E scheme \in {"s3", "https"}, downloads_ok \in BOOLEAN, opens \in BOOLEAN :
               LET outcome == stage_s3_outcome(scheme, downloads_ok)
               IN IF outcome # "ok" THEN Raise(outcome)
                  ELSE IF ~opens THEN Raise("OpenError")
                  ELSE \E v \in ExistingVars, c \in CoordLayouts(dim) :
                         /\ ds' = Opened(v, c, <<>>)
                         /\ pc' = "stage_input"
                         /\ UNCHANGED <<variables, new_ds, new_vars, old_rows, raw_rows,
                                        prev, time_coord, report, result>>
    /\ UNCHANGED <<args, attempted, completed, store>>

\* Line 80.
StageInput ==
    /\ pc = "stage_input"
    /\ MakeStagingDir
    /\ \E scheme \in {"s3", "https"}, downloads_ok \in BOOLEAN :
         LET outcome == stage_s3_outcome(scheme, downloads_ok)
         IN IF outcome # "ok" THEN Raise(outcome)
            ELSE pc' = "open_new" /\ UNCHANGED <<locals, result>>
    /\ UNCHANGED <<args, attempted, completed, store>>

\* Lines 82-84: open_mfdataset raises when the pattern matches no file.
OpenNew ==
    /\ pc = "open_new"
    /\ \/ Raise("OSError")
       \/ \E v \in IncomingVars,
             c \in (IF ds.some THEN {ds.coords} ELSE CoordLayouts(dim)) :
          \E r \in IncomingRows(c, dim) :
            /\ new_ds' = sortby(Opened(v, c, r), dim)
            /\ new_vars' = v
            /\ raw_rows' = r
            /\ pc' = "select"
            /\ UNCHANGED <<variables, ds, old_rows, prev, time_coord, report, result>>
    /\ UNCHANGED <<args, staging, attempted, completed, store>>

\* Lines 86-98.
Select ==
    /\ pc = "select"
    /\ \E req \in RequestValues :
         /\ requested' = req
         /\ IF first_variable_fails(new_ds) THEN Raise("IndexError") /\ UNCHANGED completed
            ELSE LET names == default_variables(req, ds, new_ds)
                 IN IF subselect_fails(new_ds, names)
                    THEN Raise("KeyError") /\ UNCHANGED completed
                    ELSE /\ variables' = names
                         /\ new_ds' = subselect(new_ds, names)
                         /\ completed' = Append(completed, "select")
                         /\ pc' = "merge"
                         /\ UNCHANGED <<ds, new_vars, old_rows, raw_rows, prev,
                                        time_coord, report, result>>
    /\ UNCHANGED <<dim, duration, staging, attempted, store>>

\* Lines 100-105.  xr.concat loads the rows of the existing store.  When the
\* two datasets' data variables differ, xr.concat raises ValueError or fills
\* the missing variable, depending on the xarray release installed.  new_ds
\* args.variables and `variables` are not read after line 105.
Merge ==
    /\ pc = "merge"
    /\ \/ /\ concat_vars_differ(ds, new_ds)
          /\ Raise("ValueError")
          /\ UNCHANGED <<completed, requested>>
       \/ /\ \E r \in (IF ds.some THEN ExistingRows(ds.coords, dim) ELSE {<<>>}) :
               /\ old_rows' = r
               /\ ds' = merge_step([ds EXCEPT !.rows = r], new_ds, dim)
          /\ new_ds' = NoneDs
          /\ new_vars' = <<>>
          /\ variables' = <<>>
          /\ requested' = NoRequest
          /\ completed' = Append(completed, "merge")
          /\ pc' = "discover"
          /\ UNCHANGED <<raw_rows, prev, time_coord, report, result>>
    /\ UNCHANGED <<dim, duration, staging, attempted, store>>

\* Lines 107-116.
Discover ==
    /\ pc = "discover"
    /\ LET found == find_time_coord(ds.coords, dim, 1)
       IN IF found = "None"
          THEN Raise("ValueError") /\ UNCHANGED completed
          ELSE /\ time_coord' = found
               /\ completed' = Append(completed, "discover")
               /\ pc' = "dedup"
               /\ UNCHANGED <<variables, ds, new_ds, new_vars, old_rows, raw_rows,
                              prev, report, result>>
    /\ UNCHANGED <<args, staging, attempted, store>>

\* Lines 118-136.
Dedup ==
    /\ pc = "dedup"
    /\ LET times == coord_values(ds.rows, time_coord, dim)
       IN report' = IF any_zero_diff(times)
                    THEN [warned |-> TRUE, drop |-> drop_list(times)]
                    ELSE NoReport
    /\ ds' = dedup_step(ds, time_coord, dim)
    /\ prev' = ds.rows
    /\ completed' = Append(completed, "dedup")
    /\ pc' = "trim"
    /\ UNCHANGED <<variables, new_ds, new_vars, old_rows, raw_rows, time_coord, result>>
    /\ UNCHANGED <<args, staging, attempted, store>>

\* Lines 138-154.
Trim ==
    /\ pc = "trim"
    /\ \E dur \in DurationValues :
         /\ duration' = dur
         /\ LET times == coord_values(ds.rows, time_coord, dim)
                idx == trim_scan(times, dur.span, 0)
            IN IF dur.some /\ exceeds(times, dur.span) /\ idx < 0
               THEN Raise("IndexError") /\ UNCHANGED completed
               ELSE IF dur.some /\ exceeds(times, dur.span) /\ dim # IselDim
               THEN Raise("ValueError") /\ UNCHANGED completed
               ELSE /\ ds' = IF dur.some /\ exceeds(times, dur.span)
                              THEN [ds EXCEPT !.rows = isel_from(ds.rows, idx)]
                              ELSE ds
                    /\ prev' = ds.rows
                    /\ old_rows' = <<>>
                    /\ raw_rows' = <<>>
                    /\ report' = NoReport
                    /\ completed' = Append(completed, "trim")
                    /\ pc' = "chunk"
                    /\ UNCHANGED <<variables, new_ds, new_vars, time_coord, result>>
    /\ UNCHANGED <<dim, requested, staging, attempted, store>>

\* Lines 156-163.
Chunk ==
    /\ pc = "chunk"
    /\ ds' = [ds EXCEPT !.chunks = chunk_config]
    /\ prev' = <<>>
    /\ duration' = NoDuration
    /\ completed' = Append(completed, "chunk")
    /\ pc' = "encode"
    /\ UNCHANGED <<dim, requested, variables, new_ds, new_vars, old_rows, raw_rows,
                   time_coord, report, staging, attempted, store, result>>

\* Lines 165-166.
Encode ==
    /\ pc = "encode"
    /\ ds' = [ds EXCEPT !.codec = compressor]
    /\ completed' = Append(completed, "encode")
    /\ pc' = "write"
    /\ UNCHANGED <<args, variables, new_ds, new_vars, old_rows, raw_rows, prev,
                   time_coord, report, staging, attempted, store, result>>

\* Lines 168-176: the last statement of main.
Write ==
    /\ pc = "write"
    /\ \E existed \in BOOLEAN :
       \E outcome \in to_zarr_outcome(to_zarr_mode, existed) :
         /\ writes' = Append(writes, [mode |-> to_zarr_mode, existed |-> existed,
                                      chunks |-> ds.chunks, codec |-> ds.codec])
         /\ dest' = outcome.dest
         /\ IF outcome.result = "ok"
            THEN /\ completed' = Append(completed, "write")
                 /\ pc' = "finally"
                 /\ result' = "ok"
                 /\ DropLocals
            ELSE /\ Raise(outcome.result)
                 /\ UNCHANGED completed
    /\ UNCHANGED <<args, staging, attempted>>

\* Lines 242-248.
Finally ==
    /\ pc = "finally"
    /\ \E failing \in SUBSET Range(staging_dirs) :
         LET calls == rmtree_calls(staging_dirs, failing)
         IN /\ attempted' = calls
            /\ fs' = fs \ (Range(calls) \ failing)
            /\ result' = outcome_after_cleanup(result, failing)
    /\ pc' = "exited"
    /\ UNCHANGED <<args, locals, staging_dirs, created, completed, store>>

Next ==
    \/ Client
    \/ OpenZarr
    \/ StageInput
    \/ OpenNew
    \/ Select
    \/ Merge
    \/ Discover
    \/ Dedup
    \/ Trim
    \/ Chunk
    \/ Encode
    \/ Write
    \/ Finally

Spec == Init /\ [][Next]_vars

----------------------------------------------------------------------------
(* Properties *)

Ts(rows) == [i \in 1 .. Len(rows) |-> rows[i].t]
Ps(rows) == [i \in 1 .. Len(rows) |-> rows[i].p]

NonDecreasing(s) == \A i \in 1 .. (Len(s) - 1) : s[i] <= s[i + 1]
StrictlyIncreasing(s) == \A i \in 1 .. (Len(s) - 1) : s[i] < s[i + 1]

IsSuffix(s, whole) ==
    /\ Len(s) <= Len(whole)
    /\ s = SubSeq(whole, Len(whole) - Len(s) + 1, Len(whole))

\* The values of the ordering coordinate, the one discovery returned, over the
\* given rows.
OrderingCoord(rows) == coord_values(rows, time_coord, dim)

\* C1: sort invariant.  For every existing and every incoming dataset the
\* ordering coordinate of the working dataset is non-decreasing once the merge
\* step has run and strictly increasing once the dedup step has run.
C1_SortInvariant ==
    /\ pc = "dedup" => NonDecreasing(OrderingCoord(ds.rows))
    /\ pc = "trim" => StrictlyIncreasing(OrderingCoord(ds.rows))

\* C1 where the ordering coordinate is the dimension's index coordinate, the
\* one sortby and drop_duplicates act on: there the invariant does hold.
C1_SortInvariantOnIndex ==
    /\ (pc \in {"discover", "dedup"} /\ HasIndex(ds.coords, dim)) =>
           NonDecreasing(Ts(ds.rows))
    /\ (pc = "trim" /\ time_coord = dim) => StrictlyIncreasing(Ts(ds.rows))

\* C2: keep-first.  After merge and dedup, of every ordering-coordinate value
\* that occurs twice or more in the concatenation (existing rows followed by
\* incoming rows) exactly one sample is left, and it is the first one of the
\* concatenation with that value.
C2_KeepFirst ==
    pc = "trim" =>
        LET cat == OrderingCoord(old_rows \o raw_rows)
            rows == old_rows \o raw_rows
            kept == OrderingCoord(ds.rows)
        IN \A i \in 1 .. Len(cat) :
             ( /\ \A j \in 1 .. (i - 1) : cat[j] # cat[i]
               /\ \E j \in (i + 1) .. Len(cat) : cat[j] = cat[i] ) =>
                 /\ Cardinality({k \in 1 .. Len(kept) : kept[k] = cat[i]}) = 1
                 /\ \E k \in 1 .. Len(kept) : ds.rows[k] = rows[i]

\* C2 where the ordering coordinate is the dimension's index coordinate: every
\* value of the concatenation, repeated or not, is left exactly once and with
\* its first sample.
C2_KeepFirstOnIndex ==
    (pc = "trim" /\ time_coord = dim) =>
        LET cat == old_rows \o raw_rows
        IN \A i \in 1 .. Len(cat) :
             (\A j \in 1 .. (i - 1) : cat[j].t # cat[i].t) =>
                 /\ Cardinality({k \in 1 .. Len(ds.rows) : ds.rows[k].t = cat[i].t}) = 1
                 /\ \E k \in 1 .. Len(ds.rows) : ds.rows[k] = cat[i]

\* The smallest 0-based idx with times[last] - times[idx] <= span.
MinimalIdx(times, span) ==
    CHOOSE idx \in 0 .. (Len(times) - 1) :
        /\ times[Len(times)] - times[idx + 1] <= span
        /\ \A j \in 0 .. (idx - 1) : times[Len(times)] - times[j + 1] > span

\* C3: window bound and minimality.  From a non-empty, strictly increasing
\* dataset and a duration >= 0 the trim step returns the suffix that starts at
\* the smallest index within the duration of the last row; without a duration it
\* returns the dataset unchanged.
C3_WindowBound ==
    [][(pc = "trim" /\ time_coord = dim) =>
        /\ (duration'.some /\ duration'.span >= 0) =>
             /\ pc' = "chunk"
             /\ ds'.rows = isel_from(ds.rows, MinimalIdx(Ts(ds.rows), duration'.span))
        /\ ~duration'.some => (pc' = "chunk" /\ ds' = ds)]_vars

\* C3 for --time-dim time, the name line 151 spells out: there the step does
\* return the minimal suffix.
C3_WindowBoundTimeDim ==
    [][(pc = "trim" /\ time_coord = dim /\ dim = IselDim) =>
        /\ (duration'.some /\ duration'.span >= 0) =>
             /\ pc' = "chunk"
             /\ ds'.rows = isel_from(ds.rows, MinimalIdx(Ts(ds.rows), duration'.span))
        /\ ~duration'.some => (pc' = "chunk" /\ ds' = ds)]_vars

\* C4: trim edge case.  With a zero or negative duration the trim step does not
\* raise and returns a non-empty suffix of its non-empty input (stated for
\* --time-dim time).
C4_TrimNeverRaises ==
    [][(pc = "trim" /\ time_coord = dim /\ dim = IselDim
            /\ duration'.some /\ duration'.span <= 0) =>
        /\ pc' = "chunk"
        /\ ds'.rows # <<>>
        /\ IsSuffix(ds'.rows, ds.rows)]_vars

\* C5: duplicate report.  When the sorted coordinate holds duplicates a report
\* is printed, its count is the number of rows the dedup step removed, and its
\* positions are the 0-based positions, before dedup, of the rows removed.
C5_DuplicateReport ==
    (pc = "trim" /\ time_coord = dim) =>
        /\ report.warned <=> ~StrictlyIncreasing(Ts(prev))
        /\ report.warned =>
             /\ Len(report.drop) = Len(prev) - Len(ds.rows)
             /\ Range(report.drop) = {k - 1 : k \in DuplicatedFirst(prev)}

\* C5, the count alone: the report's length is the number of rows removed.
C5_CountAccurate ==
    (pc = "trim" /\ time_coord = dim) =>
        /\ report.warned <=> ~StrictlyIncreasing(Ts(prev))
        /\ Len(report.drop) = Len(prev) - Len(ds.rows)

StepsBeforeWrite ==
    <<"select", "merge", "discover", "dedup", "trim", "chunk", "encode">>

Failed == result \notin {"running", "ok"}

\* The writer is called at most once, only after every step from selection to
\* encoding has completed, and in exclusive-create mode.
WriterGuarded ==
    /\ Len(writes) <= 1
    /\ \A i \in 1 .. Len(writes) :
         /\ writes[i].mode = "w-"
         /\ writes[i].chunks = chunk_config
         /\ writes[i].codec = compressor
         /\ SubSeq(completed, 1, Len(StepsBeforeWrite)) = StepsBeforeWrite

\* A store that was at the destination when the writer was called is
\* untouched, and the call failed.
NeverOverwritten ==
    \A i \in 1 .. Len(writes) : writes[i].existed => (dest = "untouched" /\ Failed)

\* C6: write safety.  The writer is called at most once, after all the steps
\* and in exclusive-create mode; a run that ends in any error leaves the
\* destination as it was, and a destination that exists is never overwritten.
C6_WriteSafety ==
    /\ WriterGuarded
    /\ NeverOverwritten
    /\ Failed => dest = "untouched"
    /\ dest = "written" => (Len(writes) = 1 /\ result = "ok")

\* C6 without the writer's own failures: the call is guarded, an existing
\* destination is never overwritten, a run that fails before the call leaves
\* the destination as it was, and only the one call alters it.
C6_WriteGuarded ==
    /\ WriterGuarded
    /\ NeverOverwritten
    /\ (Failed /\ writes = <<>>) => dest = "untouched"
    /\ dest # "untouched" => (Len(writes) = 1 /\ ~writes[1].existed)
    /\ dest = "written" => result = "ok"

Candidates(coords, d) ==
    {coords[i].name : i \in {j \in 1 .. Len(coords) : coords[j].dims = <<d>>}}

\* C7: discovery.  It returns the one coordinate whose dims are exactly the
\* ordering dimension, and raises both when there is none and when there are
\* several.
C7_Discovery ==
    [][pc = "discover" =>
        IF Cardinality(Candidates(ds.coords, dim)) = 1
        THEN pc' = "dedup" /\ time_coord' \in Candidates(ds.coords, dim)
        ELSE pc' = "finally" /\ result' = "ValueError"]_vars

\* C8: default selection.  Once selection has succeeded: an empty or missing
\* request selects the incoming dataset's first variable when there is no
\* store and the store's variables otherwise, a non-empty request is taken as
\* given, and every selected variable is one of the incoming dataset's; a run
\* refused for a missing variable has not merged.
C8_DefaultSelection ==
    /\ pc = "merge" =>
         LET given == IF requested.some THEN requested.names ELSE <<>>
         IN /\ (given = <<>> /\ ~ds.some) => variables = <<new_vars[1]>>
            /\ (given = <<>> /\ ds.some) => variables = ds.vars
            /\ given # <<>> => variables = given
            /\ Range(variables) \subseteq Range(new_vars)
    /\ result = "KeyError" => "merge" \notin Range(completed)

\* No request, a store with the single variable sal, new files declaring temp
\* first: the store's variable is selected, not the first declared one.
C8_Witness ==
    /\ pc = "merge"
    /\ ~requested.some
    /\ ds.some
    /\ result = "running"
    /\ variables = <<"sal">>
    /\ new_vars = <<"temp", "sal">>

\* The three runs C9 compares, for the store rows A, the new rows B and the
\* working dataset's variables as the request: A alone, then B appended to its
\* result, and A followed by B in one run.
AppendRuns ==
    LET req == [some |-> TRUE, names |-> ds.vars]
        A == Opened(ds.vars, ds.coords, old_rows)
        B == Opened(ds.vars, ds.coords, raw_rows)
        AB == Opened(ds.vars, ds.coords, old_rows \o raw_rows)
        first == merge_dedup(req, NoneDs, A, FALSE, dim)
    IN [first |-> first,
        second |-> merge_dedup(req, first.ds, B, FALSE, dim),
        single |-> merge_dedup(req, NoneDs, AB, FALSE, dim)]

AppendRunsAgree ==
    LET r == AppendRuns
    IN /\ r.first.err = "none" /\ r.second.err = "none" /\ r.single.err = "none"
       /\ r.second.ds.rows = r.single.ds.rows
       /\ r.second.ds.vars = ds.vars /\ r.single.ds.vars = ds.vars
       /\ ds.rows = r.single.ds.rows
       /\ dedup_step(ds, time_coord, dim) = ds

\* C9: append associativity and dedup idempotence.  For all store rows A and
\* new rows B: a first run on A followed by a run that appends B ends without
\* error in the rows of a single first run on A followed by B, and so does the
\* run at hand; a second dedup step drops nothing.
C9_AppendAssociative == (pc = "trim" /\ old_rows # <<>>) => AppendRunsAgree

\* C9 where the ordering coordinate is the dimension's index coordinate.
C9_AppendAssociativeOnIndex ==
    (pc = "trim" /\ old_rows # <<>> /\ time_coord = dim) => AppendRunsAgree

\* C10: staging cleanup.  Every directory created is in staging_dirs at once;
\* a run that has ended is in the finally block or past it; the finally block
\* calls rmtree on every recorded directory whatever fails, and leaves main's
\* outcome as it was.
C10_StagingCleanup ==
    /\ [](created = Range(staging_dirs))
    /\ [](result # "running" => pc \in {"finally", "exited"})
    /\ [](pc = "exited" => (result # "running" /\ Range(attempted) = created))
    /\ [][pc = "finally" =>
            /\ pc' = "exited"
            /\ Range(attempted') = created
            /\ result' = result]_vars

\* Both directories were staged, the run failed, the first removal failed and
\* the second directory was removed all the same.
C10_Witness ==
    /\ pc = "exited"
    /\ Failed
    /\ attempted = <<1, 2>>
    /\ fs = {1}

====
